---- MODULE Spec2Model ----
(***************************************************************************)
(* image_similarity.py: fingerprint a reference image, scan a directory    *)
(* for entries whose fingerprint is within a Hamming-distance threshold,   *)
(* list them, read an index/range selection and remove the chosen files.   *)
(*                                                                         *)
(* Strings are sequences of one-character strings.  A fingerprint is a     *)
(* natural number read as a vector of HashBits bits.                       *)
(***************************************************************************)
EXTENDS Integers, Sequences, FiniteSets, TLC

\* ------------------------------------------------------------------ bounds
HashBits == 2
MaxThreshold == 2
MaxLen == 3
MaxDigit == 3
MaxList == 3

\* ------------------------------------------------------------- environment
\* The reference image path, as its components; the directory entries' names.
UserImagePath == <<"ref", "r.png">>
Names == {"a.png", "b.png", "r.png"}

VARIABLES
  listing,            \* os.listdir(directory_path): the entries, in listing order
  content,            \* per entry: [ok |-> Image.open succeeds, hash |-> fingerprint]
  user_image,         \* the same, for the file at user_image_path
  threshold,          \* args.threshold
  stdin,              \* the line input() will return
  locked,             \* entries whose os.remove raises OSError though they exist
  fs,                 \* the names currently present in the directory
  pc,                 \* position of the program
  user_image_hash,    \* find_similar_images: user_image_hash
  pos,                \* find_similar_images: position of the for loop in listing
  similar_images,     \* find_similar_images / main: similar_images
  parts,              \* main: the tokens of indices.split(',') not yet parsed
  indices_to_delete,  \* main: indices_to_delete
  images_to_delete,   \* main / delete_images: images_to_delete
  d,                  \* delete_images: position of the for loop
  outcome,            \* "running", "return", "sys.exit(1)" or "ValueError"
  log                 \* what the process did to the outside, in order

vars == <<listing, content, user_image, threshold, stdin, locked, fs, pc,
          user_image_hash, pos, similar_images, parts, indices_to_delete,
          images_to_delete, d, outcome, log>>

env == <<listing, content, user_image, threshold, stdin, locked>>

\* ---------------------------------------------------------------- helpers
Range(s) == {s[k] : k \in DOMAIN s}

Event(e, f) == [ev |-> e, f |-> f]

\* os.path.basename(user_image_path)
Basename(path) == path[Len(path)]

\* line 46: image_filename == os.path.basename(user_image_path)
IsSelfNever(name) == FALSE
IsSelf(name) == name = Basename(UserImagePath)

\* imagehash.ImageHash.__sub__: the number of differing bits
RECURSIVE HammingFrom(_, _, _)
HammingFrom(a, b, n) ==
  IF n = 0 THEN 0
  ELSE (IF a % 2 # b % 2 THEN 1 ELSE 0) + HammingFrom(a \div 2, b \div 2, n - 1)

Hamming(a, b) == HammingFrom(a, b, HashBits)

\* line 52: user_image_hash - image_hash < threshold
IsSimilarInclusive(h1, h2, t) == Hamming(h1, h2) <= t
IsSimilar(h1, h2, t) == Hamming(h1, h2) < t

\* str.lower(), on the letters the model's lines hold
UpperCase == <<"E", "X", "I", "T">>
LowerCase == <<"e", "x", "i", "t">>
LowerChar(c) ==
  IF \E j \in 1..4 : UpperCase[j] = c
  THEN LowerCase[CHOOSE j \in 1..4 : UpperCase[j] = c]
  ELSE c
LowerIdentity(s) == s
Lower(s) == [k \in 1..Len(s) |-> LowerChar(s[k])]

\* str.split(sep)
RECURSIVE Split(_, _)
Split(s, sep) ==
  IF \A k \in 1..Len(s) : s[k] # sep THEN <<s>>
  ELSE LET k == CHOOSE j \in 1..Len(s) :
                  s[j] = sep /\ \A m \in 1..(j - 1) : s[m] # sep
       IN <<SubSeq(s, 1, k - 1)>> \o Split(SubSeq(s, k + 1, Len(s)), sep)

\* int(token): over the alphabet of the lines modelled, a token is accepted
\* exactly when it is a non-empty string of decimal digits; otherwise ValueError
DigitChars == <<"0", "1", "2", "3", "4", "5", "6", "7", "8", "9">>
IsDigit(c) == \E v \in 1..10 : DigitChars[v] = c
DigitValue(c) == (CHOOSE v \in 1..10 : DigitChars[v] = c) - 1
IsInt(t) == Len(t) > 0 /\ \A k \in 1..Len(t) : IsDigit(t[k])
RECURSIVE ToInt(_)
ToInt(t) ==
  IF Len(t) = 0 THEN 0
  ELSE 10 * ToInt(SubSeq(t, 1, Len(t) - 1)) + DigitValue(t[Len(t)])

\* range(start, stop)
PyRangeExclusive(start, stop) ==
  [k \in 1..(IF stop - 1 > start THEN stop - 1 - start ELSE 0) |-> start + k - 1]
PyRange(start, stop) ==
  [k \in 1..(IF stop > start THEN stop - start ELSE 0) |-> start + k - 1]

\* lines 114-115: the token is a range whose two parts int() accepts
IsRangeToken(part) ==
  /\ "-" \in Range(part)
  /\ LET nums == Split(part, "-")
     IN Len(nums) = 2 /\ IsInt(nums[1]) /\ IsInt(nums[2])

\* lines 120-121: [similar_images[i - 1] for i in indices_to_delete
\*                 if 0 < i <= len(similar_images)]
RECURSIVE PickWrapping(_, _)
PickWrapping(images, indices) ==
  IF indices = <<>> THEN <<>>
  ELSE LET i == Head(indices)
       IN (IF i <= Len(images) /\ images # <<>>
           THEN <<images[IF i > 0 THEN i ELSE Len(images) + i]>> ELSE <<>>)
          \o PickWrapping(images, Tail(indices))
RECURSIVE Pick(_, _)
Pick(images, indices) ==
  IF indices = <<>> THEN <<>>
  ELSE LET i == Head(indices)
       IN (IF 0 < i /\ i <= Len(images) THEN <<images[i]>> ELSE <<>>)
          \o Pick(images, Tail(indices))

ExitCode == IF outcome = "return" THEN 0 ELSE 1

\* ----------------------------------------------------------- initial states
Hashes == 0..(2^HashBits - 1)
Unreadable == [ok |-> FALSE, hash |-> 0]
Image(h) == [ok |-> TRUE, hash |-> h]
Contents == {Image(h) : h \in Hashes} \cup {Unreadable}

\* every listing order of every set of entries
Listings ==
  UNION {{s \in [1..n -> Names] : \A j, k \in 1..n : j # k => s[j] # s[k]}
         : n \in 0..Cardinality(Names)}

Digits == {DigitChars[v + 1] : v \in 0..MaxDigit}
Alphabet == Digits \cup {"-", ",", "x"}
ExitWords ==
  {<<c1, c2, c3, c4>> : c1 \in {"e", "E"}, c2 \in {"x", "X"},
                        c3 \in {"i", "I"}, c4 \in {"t", "T"}}
\* longer lines: a single with a range, a duplicate, a range of three parts
LongLines == {<<"2", ",", "1", "-", "3">>, <<"1", ",", "1", "-", "2">>,
              <<"1", "-", "2", "-", "3">>, <<"1", ",", "2", ",", "x">>}
Lines == UNION {[1..n -> Alphabet] : n \in 0..MaxLen} \cup ExitWords \cup LongLines

\* the lines tried against every directory of the scan
ScanLines == {<<"e", "x", "i", "t">>, <<"1", ",", "1", "-", "2">>, <<"x">>}

Start ==
  /\ fs = Range(listing)
  /\ pc = "start"
  /\ user_image_hash = 0
  /\ pos = 1
  /\ similar_images = <<>>
  /\ parts = <<>>
  /\ indices_to_delete = <<>>
  /\ images_to_delete = <<>>
  /\ d = 1
  /\ outcome = "running"
  /\ log = <<>>

\* main() on any directory, reference image and threshold
Init ==
  /\ listing \in Listings
  /\ content \in [Range(listing) -> Contents]
  /\ user_image \in Contents
  /\ threshold \in 0..MaxThreshold
  /\ stdin \in ScanLines
  /\ locked = {}
  /\ Start

\* main() on any input line, over directories holding all three entries
InitSelection ==
  /\ listing \in {s \in Listings : Len(s) = Cardinality(Names)}
  /\ content \in {c \in [Range(listing) -> Contents] :
                    /\ c["a.png"] \in {Image(0), Image(1)}
                    /\ c["r.png"] = Image(0)
                    /\ c["b.png"] \in {Image(0), Image(1), Unreadable}}
  /\ user_image \in {Image(0), Unreadable}
  /\ threshold = 1
  /\ stdin \in Lines
  /\ locked = {}
  /\ Start

\* delete_images(directory_path, images_to_delete) on any list of names
InitDelete ==
  /\ listing \in Listings
  /\ content = [n \in Range(listing) |-> Image(0)]
  /\ user_image = Image(0)
  /\ threshold = 0
  /\ stdin = <<>>
  /\ locked \in SUBSET Names
  /\ fs = Range(listing)
  /\ pc = "delete"
  /\ user_image_hash = 0
  /\ pos = 1
  /\ similar_images = <<>>
  /\ parts = <<>>
  /\ indices_to_delete = <<>>
  /\ images_to_delete \in UNION {[1..n -> Names] : n \in 0..MaxList}
  /\ d = 1
  /\ outcome = "running"
  /\ log = <<>>

\* ------------------------------------------------- calculate_image_hash
\* lines 25-27: print the error, sys.exit(1)
FatalReturnsNone(name) ==
  /\ log' = log \o <<Event("open_error", name)>>
  /\ outcome' = outcome
  /\ pc' = "scan"
Fatal(name) ==
  /\ log' = log \o <<Event("open_error", name)>>
  /\ outcome' = "sys.exit(1)"
  /\ pc' = "exited"

\* ---------------------------------------------------- find_similar_images
\* line 42, the image opens
HashUserImage ==
  /\ pc = "start"
  /\ user_image.ok
  /\ user_image_hash' = user_image.hash
  /\ log' = log \o <<Event("hash", "user_image")>>
  /\ pc' = "scan"
  /\ UNCHANGED <<env, fs, pos, similar_images, parts, indices_to_delete,
                 images_to_delete, d, outcome>>

\* line 42, the image does not open
HashUserImageFail ==
  /\ pc = "start"
  /\ ~user_image.ok
  /\ Fatal("user_image")
  /\ UNCHANGED <<env, fs, user_image_hash, pos, similar_images, parts,
                 indices_to_delete, images_to_delete, d>>

\* lines 46-47
ScanSkip ==
  /\ pc = "scan"
  /\ pos <= Len(listing)
  /\ IsSelf(listing[pos])
  /\ pos' = pos + 1
  /\ UNCHANGED <<env, fs, pc, user_image_hash, similar_images, parts,
                 indices_to_delete, images_to_delete, d, outcome, log>>

\* lines 49-50, the entry does not open
ScanOpenFail ==
  /\ pc = "scan"
  /\ pos <= Len(listing)
  /\ ~IsSelf(listing[pos])
  /\ ~content[listing[pos]].ok
  /\ Fatal(listing[pos])
  /\ UNCHANGED <<env, fs, user_image_hash, pos, similar_images, parts,
                 indices_to_delete, images_to_delete, d>>

\* lines 49-53, distance < threshold
ScanSimilar ==
  /\ pc = "scan"
  /\ pos <= Len(listing)
  /\ ~IsSelf(listing[pos])
  /\ content[listing[pos]].ok
  /\ IsSimilar(user_image_hash, content[listing[pos]].hash, threshold)
  /\ similar_images' = Append(similar_images, listing[pos])
  /\ log' = log \o <<Event("hash", listing[pos])>>
  /\ pos' = pos + 1
  /\ UNCHANGED <<env, fs, pc, user_image_hash, parts, indices_to_delete,
                 images_to_delete, d, outcome>>

\* lines 49-52, distance >= threshold
ScanDissimilar ==
  /\ pc = "scan"
  /\ pos <= Len(listing)
  /\ ~IsSelf(listing[pos])
  /\ content[listing[pos]].ok
  /\ ~IsSimilar(user_image_hash, content[listing[pos]].hash, threshold)
  /\ log' = log \o <<Event("hash", listing[pos])>>
  /\ pos' = pos + 1
  /\ UNCHANGED <<env, fs, pc, user_image_hash, similar_images, parts,
                 indices_to_delete, images_to_delete, d, outcome>>

\* line 55
ScanReturn ==
  /\ pc = "scan"
  /\ pos > Len(listing)
  /\ pc' = "found"
  /\ UNCHANGED <<env, fs, user_image_hash, pos, similar_images, parts,
                 indices_to_delete, images_to_delete, d, outcome, log>>

\* -------------------------------------------------------------------- main
\* lines 99-101
NoSimilarImages ==
  /\ pc = "found"
  /\ similar_images = <<>>
  /\ log' = log \o <<Event("print_none", "")>>
  /\ outcome' = "return"
  /\ pc' = "exited"
  /\ UNCHANGED <<env, fs, user_image_hash, pos, similar_images, parts,
                 indices_to_delete, images_to_delete, d>>

\* lines 103-105
PrintSimilarImages ==
  /\ pc = "found"
  /\ similar_images # <<>>
  /\ log' = log \o <<Event("print_list", "")>>
  /\ pc' = "input"
  /\ UNCHANGED <<env, fs, user_image_hash, pos, similar_images, parts,
                 indices_to_delete, images_to_delete, d, outcome>>

\* lines 107-110, the line is 'exit'
ReadExit ==
  /\ pc = "input"
  /\ Lower(stdin) = <<"e", "x", "i", "t">>
  /\ log' = log \o <<Event("input", "")>>
  /\ outcome' = "return"
  /\ pc' = "exited"
  /\ UNCHANGED <<env, fs, user_image_hash, pos, similar_images, parts,
                 indices_to_delete, images_to_delete, d>>

\* lines 107-113, any other line
ReadSelection ==
  /\ pc = "input"
  /\ Lower(stdin) # <<"e", "x", "i", "t">>
  /\ log' = log \o <<Event("input", "")>>
  /\ parts' = Split(stdin, ",")
  /\ indices_to_delete' = <<>>
  /\ pc' = "parse"
  /\ UNCHANGED <<env, fs, user_image_hash, pos, similar_images,
                 images_to_delete, d, outcome>>

\* lines 117-118
ParseSingle ==
  /\ pc = "parse"
  /\ parts # <<>>
  /\ "-" \notin Range(Head(parts))
  /\ IsInt(Head(parts))
  /\ indices_to_delete' = Append(indices_to_delete, ToInt(Head(parts)))
  /\ parts' = Tail(parts)
  /\ UNCHANGED <<env, fs, pc, user_image_hash, pos, similar_images,
                 images_to_delete, d, outcome, log>>

\* lines 114-116
ParseRange ==
  /\ pc = "parse"
  /\ parts # <<>>
  /\ IsRangeToken(Head(parts))
  /\ LET nums == Split(Head(parts), "-")
     IN indices_to_delete' =
          indices_to_delete \o PyRange(ToInt(nums[1]), ToInt(nums[2]) + 1)
  /\ parts' = Tail(parts)
  /\ UNCHANGED <<env, fs, pc, user_image_hash, pos, similar_images,
                 images_to_delete, d, outcome, log>>

\* lines 115 and 118: int() or the unpacking raises ValueError, uncaught
ParseValueErrorSkipped ==
  /\ pc = "parse"
  /\ parts # <<>>
  /\ IF "-" \in Range(Head(parts))
     THEN ~IsRangeToken(Head(parts))
     ELSE ~IsInt(Head(parts))
  /\ parts' = Tail(parts)
  /\ UNCHANGED <<env, fs, pc, user_image_hash, pos, similar_images,
                 indices_to_delete, images_to_delete, d, outcome, log>>
ParseValueError ==
  /\ pc = "parse"
  /\ parts # <<>>
  /\ IF "-" \in Range(Head(parts))
     THEN ~IsRangeToken(Head(parts))
     ELSE ~IsInt(Head(parts))
  /\ outcome' = "ValueError"
  /\ pc' = "exited"
  /\ UNCHANGED <<env, fs, user_image_hash, pos, similar_images, parts,
                 indices_to_delete, images_to_delete, d, log>>

\* lines 120-122: the selection is mapped to names, delete_images is called
SelectImagesSorted ==
  /\ pc = "parse"
  /\ parts = <<>>
  /\ images_to_delete' =
       Pick(similar_images,
            SelectSeq([k \in 1..Len(similar_images) |-> k],
                      LAMBDA i : i \in Range(indices_to_delete)))
  /\ d' = 1
  /\ pc' = "delete"
  /\ UNCHANGED <<env, fs, user_image_hash, pos, similar_images, parts,
                 indices_to_delete, outcome, log>>
SelectImages ==
  /\ pc = "parse"
  /\ parts = <<>>
  /\ images_to_delete' = Pick(similar_images, indices_to_delete)
  /\ d' = 1
  /\ pc' = "delete"
  /\ UNCHANGED <<env, fs, user_image_hash, pos, similar_images, parts,
                 indices_to_delete, outcome, log>>

\* ------------------------------------------------------------ delete_images
\* lines 68-69
Deleted ==
  /\ pc = "delete"
  /\ d <= Len(images_to_delete)
  /\ images_to_delete[d] \in fs
  /\ images_to_delete[d] \notin locked
  /\ fs' = fs \ {images_to_delete[d]}
  /\ log' = log \o <<Event("remove", images_to_delete[d]),
                     Event("print_deleted", images_to_delete[d])>>
  /\ d' = d + 1
  /\ UNCHANGED <<env, pc, user_image_hash, pos, similar_images, parts,
                 indices_to_delete, images_to_delete, outcome>>

\* lines 68, 70-71: os.remove raises OSError
DeleteErrorAborts ==
  /\ pc = "delete"
  /\ d <= Len(images_to_delete)
  /\ images_to_delete[d] \notin fs \/ images_to_delete[d] \in locked
  /\ log' = log \o <<Event("remove", images_to_delete[d]),
                     Event("print_error", images_to_delete[d])>>
  /\ d' = Len(images_to_delete) + 1
  /\ UNCHANGED <<env, fs, pc, user_image_hash, pos, similar_images, parts,
                 indices_to_delete, images_to_delete, outcome>>
DeleteError ==
  /\ pc = "delete"
  /\ d <= Len(images_to_delete)
  /\ images_to_delete[d] \notin fs \/ images_to_delete[d] \in locked
  /\ log' = log \o <<Event("remove", images_to_delete[d]),
                     Event("print_error", images_to_delete[d])>>
  /\ d' = d + 1
  /\ UNCHANGED <<env, fs, pc, user_image_hash, pos, similar_images, parts,
                 indices_to_delete, images_to_delete, outcome>>

\* the for loop of line 66 ends; delete_images and main return
DeleteReturn ==
  /\ pc = "delete"
  /\ d > Len(images_to_delete)
  /\ outcome' = "return"
  /\ pc' = "exited"
  /\ UNCHANGED <<env, fs, user_image_hash, pos, similar_images, parts,
                 indices_to_delete, images_to_delete, d, log>>

\* ---------------------------------------------------------- specifications
NextDelete ==
  \/ Deleted
  \/ DeleteError
  \/ DeleteReturn

Next ==
  \/ HashUserImage
  \/ HashUserImageFail
  \/ ScanSkip
  \/ ScanOpenFail
  \/ ScanSimilar
  \/ ScanDissimilar
  \/ ScanReturn
  \/ NoSimilarImages
  \/ PrintSimilarImages
  \/ ReadExit
  \/ ReadSelection
  \/ ParseSingle
  \/ ParseRange
  \/ ParseValueError
  \/ SelectImages
  \/ NextDelete

Spec == Init /\ [][Next]_vars
SpecSelection == InitSelection /\ [][Next]_vars
SpecDelete == InitDelete /\ [][NextDelete]_vars

\* ------------------------------------------------ vocabulary of the claims
EventsOf(e) == SelectSeq(log, LAMBDA x : x.ev = e)
FilesOf(e) == [k \in 1..Len(EventsOf(e)) |-> EventsOf(e)[k].f]

\* the files os.remove was called on, in call order
Attempted == FilesOf("remove")
InputRead == EventsOf("input") # <<>>
Count(s, x) == Cardinality({k \in DOMAIN s : s[k] = x})
ScanFinished == pc \in {"found", "input", "parse", "delete"}
                \/ (pc = "exited" /\ outcome # "sys.exit(1)")

\* Hamming distance as the number of bit positions that differ
BitAt(h, k) == (h \div (2^k)) % 2
Distance(a, b) == Cardinality({k \in 0..(HashBits - 1) : BitAt(a, k) # BitAt(b, k)})

\* the members of a set of integers, ascending
Ascending(S) ==
  [k \in 1..Cardinality(S) |-> CHOOSE x \in S : Cardinality({y \in S : y < x}) = k - 1]

\* a selection as the user means it: integers and ranges, written in decimal
SingleTokens == {[range |-> FALSE, a |-> n, b |-> n] : n \in 0..MaxDigit}
NegativeTokens == {[range |-> FALSE, a |-> 0 - n, b |-> 0 - n] : n \in 1..MaxDigit}
RangeTokens == {[range |-> TRUE, a |-> m, b |-> n] : m, n \in 0..MaxDigit}
Tokens == SingleTokens \cup RangeTokens
TokenLists == {<<t>> : t \in Tokens} \cup {<<t, u>> : t, u \in Tokens}
SignedTokenLists ==
  {<<t>> : t \in Tokens \cup NegativeTokens}
  \cup {<<t, u>> : t, u \in Tokens \cup NegativeTokens}

Decimal(n) == IF n < 0 THEN <<"-", DigitChars[1 - n]>> ELSE <<DigitChars[n + 1]>>
WriteToken(t) == IF t.range THEN Decimal(t.a) \o <<"-">> \o Decimal(t.b) ELSE Decimal(t.a)
RECURSIVE Write(_)
Write(ts) ==
  IF Len(ts) = 1 THEN WriteToken(ts[1])
  ELSE WriteToken(ts[1]) \o <<",">> \o Write(Tail(ts))

Selections == {[line |-> Write(ts), tokens |-> ts] : ts \in TokenLists}
SignedSelections == {[line |-> Write(ts), tokens |-> ts] : ts \in SignedTokenLists}

\* the indices a token list contributes, in order
RECURSIVE Expand(_)
Expand(ts) ==
  IF ts = <<>> THEN <<>>
  ELSE (IF ts[1].range THEN Ascending({i \in ts[1].a..ts[1].b : TRUE}) ELSE <<ts[1].a>>)
       \o Expand(Tail(ts))

\* the result-list entries at the in-range indices of idx, in the order of idx
EntriesAt(images, idx) ==
  LET keep == SelectSeq(idx, LAMBDA i : i \in 1..Len(images))
  IN [k \in 1..Len(keep) |-> images[keep[k]]]

\* a token int() accepts, or two of them joined by '-'
DecimalDigits == {"0", "1", "2", "3", "4", "5", "6", "7", "8", "9"}
DigitsOnly(u) == u # <<>> /\ \A k \in 1..Len(u) : u[k] \in DecimalDigits
WellFormedToken(t) ==
  \/ DigitsOnly(t)
  \/ \E k \in 1..Len(t) :
       /\ t[k] = "-"
       /\ DigitsOnly(SubSeq(t, 1, k - 1))
       /\ DigitsOnly(SubSeq(t, k + 1, Len(t)))
\* some maximal comma-free segment of the line is not a well-formed token
HasMalformedToken(s) ==
  \E i \in 1..(Len(s) + 1) : \E j \in (i - 1)..Len(s) :
    /\ i = 1 \/ s[i - 1] = ","
    /\ j = Len(s) \/ s[j + 1] = ","
    /\ \A k \in i..j : s[k] # ","
    /\ ~WellFormedToken(SubSeq(s, i, j))

\* ------------------------------------------------------------------ claims

\* C1: once the scan has returned, similar_images is exactly the listing,
\* in listing order, restricted to the entries not named like the
\* reference's base name whose distance to the reference fingerprint is
\* below the threshold; distance = threshold is out, threshold - 1 is in.
C1_ScanResult ==
  ScanFinished =>
    /\ similar_images =
         SelectSeq(listing, LAMBDA n :
           n # "r.png" /\ Distance(user_image.hash, content[n].hash) < threshold)
    /\ "r.png" \notin Range(similar_images)
    /\ \A n \in Range(listing) \ {"r.png"} :
         /\ Distance(user_image.hash, content[n].hash) = threshold
              => n \notin Range(similar_images)
         /\ Distance(user_image.hash, content[n].hash) = threshold - 1
              => n \in Range(similar_images)

C1_Witness ==
  /\ pc = "found"
  /\ Len(listing) = 3
  /\ content["r.png"] = user_image
  /\ \E m, n \in Range(listing) \ {"r.png"} :
       /\ Distance(user_image.hash, content[m].hash) = threshold
       /\ Distance(user_image.hash, content[n].hash) = threshold - 1
       /\ similar_images = <<n>>

\* C2: when the reference image or a non-skipped entry does not open, the
\* process has exited with code 1 right there: the failed open is the last
\* thing it did, only the entries listed before it were fingerprinted, no
\* list was printed, no line read and no file removed.
FirstUnreadable ==
  CHOOSE j \in 1..Len(listing) :
    /\ listing[j] # "r.png" /\ ~content[listing[j]].ok
    /\ \A m \in 1..(j - 1) : listing[m] = "r.png" \/ content[listing[m]].ok
DiedAt(name, before) ==
  /\ pc = "exited"
  /\ outcome = "sys.exit(1)"
  /\ ExitCode = 1
  /\ log = [k \in 1..Len(before) |-> Event("hash", before[k])]
             \o <<Event("open_error", name)>>
  /\ fs = Range(listing)
C2_FailFast ==
  /\ (pc # "start" /\ ~user_image.ok) => DiedAt("user_image", <<>>)
  /\ \A j \in 1..Len(listing) :
       j < pos => listing[j] = "r.png" \/ content[listing[j]].ok
  /\ ( /\ pc \notin {"start", "scan"}
       /\ user_image.ok
       /\ \E n \in Range(listing) \ {"r.png"} : ~content[n].ok )
     => DiedAt(listing[FirstUnreadable],
               <<"user_image">> \o
               SelectSeq(SubSeq(listing, 1, FirstUnreadable - 1),
                         LAMBDA n : n # "r.png"))

C2_Witness ==
  /\ pc = "exited"
  /\ Len(listing) = 3
  /\ user_image.ok
  /\ content[listing[1]].ok /\ listing[1] # "r.png"
  /\ ~content[listing[2]].ok /\ listing[2] # "r.png"
  /\ IsSimilar(user_image.hash, content[listing[1]].hash, threshold)

\* C3: delete_images attempts every filename of its list in order; a file is
\* removed exactly when it is on disk and removable at its turn, an error is
\* printed exactly for the other positions, and removed files stay removed.
Removable(k) ==
  /\ images_to_delete[k] \in Range(listing)
  /\ images_to_delete[k] \notin locked
  /\ \A j \in 1..(k - 1) : images_to_delete[j] # images_to_delete[k]
C3_DeletionIndependence ==
  LET done == 1..(d - 1) IN
  /\ d <= Len(images_to_delete) + 1
  /\ pc = "exited" => d = Len(images_to_delete) + 1
  /\ Attempted = SubSeq(images_to_delete, 1, d - 1)
  /\ fs = Range(listing) \ {images_to_delete[k] : k \in {j \in done : Removable(j)}}
  /\ FilesOf("print_deleted") =
       EntriesAt(images_to_delete, Ascending({k \in done : Removable(k)}))
  /\ FilesOf("print_error") =
       EntriesAt(images_to_delete, Ascending({k \in done : ~Removable(k)}))

C3_Witness ==
  /\ pc = "exited"
  /\ Len(images_to_delete) = 3
  /\ images_to_delete[2] \notin Range(listing)
  /\ {images_to_delete[1], images_to_delete[3]} \subseteq Range(listing) \ fs
  /\ images_to_delete[1] # images_to_delete[3]
  /\ FilesOf("print_error") = <<images_to_delete[2]>>

\* C4 as stated: whatever integers the line names, one by one or by ranges,
\* the run ends normally and exactly the files at the in-range indices are
\* removed.
C4_AnyIntegerDiscarded ==
  (InputRead /\ pc = "exited") =>
    \A sel \in SignedSelections :
      stdin = sel.line =>
        /\ outcome = "return"
        /\ fs = Range(listing) \ Range(EntriesAt(similar_images, Expand(sel.tokens)))

\* C4, amended: when every token is a non-negative integer or a range of
\* two of them, the run ends normally, one removal is attempted per in-range
\* index and none for an index outside [1, result_count], and the files at
\* the in-range indices are the ones removed.
C4_OutOfRangeDiscarded ==
  InputRead =>
    \A sel \in Selections :
      stdin = sel.line =>
        LET idx == Expand(sel.tokens)
            inside == {k \in DOMAIN idx : idx[k] \in 1..Len(similar_images)}
        IN /\ outcome # "ValueError"
           /\ pc = "exited" =>
                /\ outcome = "return"
                /\ Len(Attempted) = Cardinality(inside)
                /\ Range(Attempted) = {similar_images[idx[k]] : k \in inside}
                /\ fs = Range(listing) \ {similar_images[idx[k]] : k \in inside}

C4_Witness ==
  /\ stdin = <<"0", "-", "3">>
  /\ Len(similar_images) = 2
  /\ pc = "exited"
  /\ outcome = "return"
  /\ indices_to_delete = <<0, 1, 2, 3>>
  /\ fs = Range(listing) \ Range(similar_images)

\* C5: once a line spelling 'exit' in any letter case has been read, the
\* program has returned: nothing was tokenised or selected, os.remove was
\* never called and the directory holds the files it held.
C5_ExitAborts ==
  (stdin \in ExitWords /\ InputRead) =>
    /\ pc = "exited"
    /\ outcome = "return"
    /\ parts = <<>>
    /\ indices_to_delete = <<>>
    /\ images_to_delete = <<>>
    /\ Attempted = <<>>
    /\ fs = Range(listing)

C5_Witness ==
  /\ stdin = <<"E", "x", "I", "T">>
  /\ InputRead
  /\ Len(similar_images) = 2

\* C6: for a line written from integers and ranges a-b, indices_to_delete
\* is the concatenation of n for a token n and of a, a+1, ..., b for a
\* token a-b (nothing when a > b), and images_to_delete holds the result
\* entries at those 1-based indices, in that order.
C6_SelectionExpansion ==
  InputRead =>
    \A sel \in Selections :
      stdin = sel.line =>
        LET ts == sel.tokens IN
        /\ pc \in {"parse", "delete", "exited"}
        /\ pc = "parse" =>
             \E n \in 0..Len(ts) :
               /\ Len(parts) = Len(ts) - n
               /\ indices_to_delete = Expand(SubSeq(ts, 1, n))
        /\ pc \in {"delete", "exited"} =>
             /\ indices_to_delete = Expand(ts)
             /\ images_to_delete = EntriesAt(similar_images, Expand(ts))

C6_Witness ==
  /\ stdin = <<"2", ",", "1", "-", "3">>
  /\ Len(similar_images) = 2
  /\ pc = "delete"
  /\ indices_to_delete = <<2, 1, 2, 3>>
  /\ images_to_delete = <<similar_images[2], similar_images[1], similar_images[2]>>

\* C7 as stated: of two files whose removal was attempted, the one earlier
\* in the scan result list was attempted first.
FirstAttempt(f) == CHOOSE k \in DOMAIN Attempted :
                     Attempted[k] = f /\ \A j \in 1..(k - 1) : Attempted[j] # f
C7_ScanOrder ==
  pc = "exited" =>
    \A a, b \in DOMAIN similar_images :
      ( /\ a < b
        /\ similar_images[a] \in Range(Attempted)
        /\ similar_images[b] \in Range(Attempted) )
      => FirstAttempt(similar_images[a]) < FirstAttempt(similar_images[b])

\* C7, amended: removals are attempted one at a time in the order in which
\* the line names the indices (tokens left to right, a range ascending):
\* after d - 1 steps of the loop the attempts are the first d - 1 selected
\* entries, in that order.
C7_SelectionOrder ==
  (InputRead /\ pc \in {"delete", "exited"}) =>
    \A sel \in Selections :
      stdin = sel.line =>
        LET chosen == EntriesAt(similar_images, Expand(sel.tokens)) IN
        /\ d <= Len(chosen) + 1
        /\ Attempted = SubSeq(chosen, 1, d - 1)
        /\ pc = "exited" => Attempted = chosen

C7_Witness ==
  /\ stdin = <<"2", ",", "1">>
  /\ pc = "exited"
  /\ Len(similar_images) = 2
  /\ Attempted = <<similar_images[2], similar_images[1]>>

\* C8: a file whose index the line names more than once has its removal
\* attempted exactly once, and no error is printed for it.
C8_SelectionIsSet ==
  \A i \in DOMAIN similar_images :
    (pc = "exited" /\ outcome = "return" /\ Count(indices_to_delete, i) > 1) =>
      /\ Count(Attempted, similar_images[i]) = 1
      /\ Count(FilesOf("print_error"), similar_images[i]) = 0

\* C9: when some token of the line read is malformed, the program is still
\* parsing or has died of the ValueError: os.remove was never called and
\* the directory holds the files it held.
C9_ParseBeforeDelete ==
  (InputRead /\ stdin \notin ExitWords /\ HasMalformedToken(stdin)) =>
    /\ pc \in {"parse", "exited"}
    /\ pc = "exited" => (outcome = "ValueError" /\ ExitCode # 0)
    /\ images_to_delete = <<>>
    /\ Attempted = <<>>
    /\ fs = Range(listing)

C9_Witness ==
  /\ stdin = <<"1", ",", "x">>
  /\ pc = "exited"
  /\ outcome = "ValueError"
  /\ indices_to_delete = <<1>>
  /\ fs = Range(listing)

\* C10: every call of os.remove so far was on an entry of this run's result
\* list, so never on the entry named like the reference's base name nor on
\* an entry at distance >= threshold, and it came after the scan had
\* returned, the list was printed and the line was read.
C10_OnlyResultsRemoved ==
  \A k \in DOMAIN log :
    log[k].ev = "remove" =>
      /\ log[k].f \in Range(similar_images)
      /\ log[k].f \in Range(listing)
      /\ log[k].f # "r.png"
      /\ Distance(user_image.hash, content[log[k].f].hash) < threshold
      /\ pos > Len(listing)
      /\ \E i, j \in 1..(k - 1) :
           i < j /\ log[i].ev = "print_list" /\ log[j].ev = "input"

C10_Witness ==
  /\ pc = "exited"
  /\ Attempted # <<>>
  /\ content["b.png"] = Image(1)
  /\ listing[1] = "r.png"
  /\ stdin = <<"0", "-", "3">>

====
